---- MODULE Spec2Model ----
(***************************************************************************)
(* The assignment API of src/app.py: two tables (UserModel,                *)
(* DataCaptureModel) behind five flask-restful resources. Requests are     *)
(* served by parallel threads (app.run, threaded by default), so the two   *)
(* handlers that read and then write are split at the point where the      *)
(* write is issued; the three read-only handlers are one step each.        *)
(* The created_at columns are not modelled: no handler reads them back     *)
(* into a decision.                                                        *)
(***************************************************************************)
EXTENDS Integers, Sequences, FiniteSets, TLC

VARIABLES
    users,      \* the user_model table, rows in insertion (rowid) order
    captures,   \* the data_capture_model table, rows in insertion order
    thread,     \* per request thread: where it stands inside a handler
    resp,       \* the HTTP response completed last
    regOk,      \* history: per 201 of /api/register, the submitted username and
                \* password and the id returned
    capOk       \* history: the submission behind every 201 of .../data_capture

vars == <<users, captures, thread, resp, regOk, capOk>>

(***************************** bounds **************************************)

\* The DataCapture table is capped: submissions are accepted while fewer rows
\* than this are stored or about to be stored.
MaxCaptures == 2

Threads == {"t1", "t2"}

Usernames == {"alice", "bob"}

PwValid == <<"V", "a", "l", "i", "d", "1", "P", "a", "s", "s", "!">>
PwShort == <<"s", "h", "o", "r", "t", "1", "!">>
PwNoDigit == <<"a", "l", "l", "l", "e", "t", "t", "e", "r", "s", "n", "o", "u", "p", "p", "e", "r", "c", "a", "s", "e", "n", "o", "d", "i", "g", "i", "t">>
PwHash == <<"V", "a", "l", "i", "d", "1", "P", "a", "s", "s", "!", "#">>

Passwords == {PwValid, PwShort, PwNoDigit, PwHash}

\* Path parameters <int:user_id>: the ids the two possible users get, and one
\* that is never assigned.
UserIds == {1, 2, 9999}

\* JSON bodies of /api/register and /api/login; the last kind lacks the
\* required password.
UserBodies ==
    {[username |-> u, password |-> p] : u \in Usernames, p \in Passwords}
        \cup {[username |-> u] : u \in Usernames}

JsonGood == "[1, 2]"
JsonBad == "{not valid json"

\* JSON bodies of .../data_capture.
CaptureBodies ==
    { [latitude |-> 10, longitude |-> 30, isp |-> "jio", os |-> "android"],
      [latitude |-> 20, longitude |-> 40, isp |-> "airtel", os |-> "ios",
       touch_interaction_patterns |-> JsonGood, sensor_data |-> ""],
      [latitude |-> 10, longitude |-> 30, isp |-> "jio", os |-> "android",
       touch_interaction_patterns |-> JsonBad],
      [latitude |-> 10, longitude |-> 30, isp |-> "jio", os |-> "android",
       sensor_data |-> JsonBad],
      [longitude |-> 30, isp |-> "jio", os |-> "android"] }

(************************** request parsing ********************************)

\* Python's None, as a column or argument value.
NoneVal == "<None>"

\* reqparse: an argument absent from the body parses to None.
Arg(body, name) == IF name \in DOMAIN body THEN body[name] ELSE NoneVal

\* user_args.parse_args(): both arguments are required=True.
user_args_ok(body) == {"username", "password"} \subseteq DOMAIN body

\* data_capture_args.parse_args(): four arguments are required=True.
data_capture_args_ok(body) ==
    {"latitude", "longitude", "isp", "os"} \subseteq DOMAIN body

(************************** password policy ********************************)

MinPasswordLength == 8

Letters ==
    {"a", "b", "c", "d", "e", "f", "g", "h", "i", "j", "k", "l", "m", "n", "o",
     "p", "q", "r", "s", "t", "u", "v", "w", "x", "y", "z",
     "A", "B", "C", "D", "E", "F", "G", "H", "I", "J", "K", "L", "M", "N", "O",
     "P", "Q", "R", "S", "T", "U", "V", "W", "X", "Y", "Z"}

Digits == {"0", "1", "2", "3", "4", "5", "6", "7", "8", "9"}

SpecialChars == {"@", "$", "!", "%", "*", "?", "&"}

\* The character class [A-Za-z\d@$!%*?&] of the pattern's body.
AllowedChars == Letters \cup Digits \cup SpecialChars

\* A lookahead (?=.*[S]) at position 0: some character of S, reached over
\* characters "." matches (anything but a newline).
Lookahead(pw, S) ==
    \E i \in 1..Len(pw) :
        /\ pw[i] \in S
        /\ \A j \in 1..(i - 1) : pw[j] # "\n"

\* [A-Za-z\d@$!%*?&]{8,}$ over the first m characters.
BodyMatches(pw, m) ==
    /\ m >= MinPasswordLength
    /\ \A i \in 1..m : pw[i] \in AllowedChars

\* re.match of the pattern: three lookaheads, then the body up to "$", which
\* matches at the end of the string or just before a final newline.
is_valid_password(pw) ==
    /\ Lookahead(pw, Letters)
    /\ Lookahead(pw, Digits)
    /\ Lookahead(pw, SpecialChars)
    /\ \/ BodyMatches(pw, Len(pw))
       \/ /\ Len(pw) >= 1
          /\ pw[Len(pw)] = "\n"
          /\ BodyMatches(pw, Len(pw) - 1)

(****************************** the store **********************************)

\* An INTEGER PRIMARY KEY of SQLite: one more than the largest in the table.
RECURSIVE MaxId(_)
MaxId(table) ==
    IF table = <<>> THEN 0
    ELSE LET m == MaxId(Tail(table))
         IN IF Head(table).id > m THEN Head(table).id ELSE m

NextId(table) == MaxId(table) + 1

\* The row as stored: the INSERT sets its primary key.
WithId(row, id) == [k \in DOMAIN row \cup {"id"} |-> IF k = "id" THEN id ELSE row[k]]

\* UserModel.query.filter_by(username=...): the matching rows, in table order.
UsersByUsername(u) == SelectSeq(users, LAMBDA r : r.username = u)

\* Bug variant: the password is left out of the filter.
UsersByCredentials_AnyPassword(u, p) == SelectSeq(users, LAMBDA r : r.username = u)

\* UserModel.query.filter_by(username=..., password=...).
UsersByCredentials(u, p) ==
    SelectSeq(users, LAMBDA r : r.username = u /\ r.password = p)

\* Bug variant: query.first() in place of query.get(user_id).
UsersById_First(uid) == IF users = <<>> THEN <<>> ELSE <<Head(users)>>

\* UserModel.query.get(user_id): the rows with that primary key.
UsersById(uid) == SelectSeq(users, LAMBDA r : r.id = uid)

\* Bug variant: query.all() without the filter.
CapturesByUser_All(uid) == captures

\* DataCaptureModel.query.filter_by(user_id=...).all().
CapturesByUser(uid) == SelectSeq(captures, LAMBDA r : r.user_id = uid)

\* Bug variant: the column is declared without unique=True.
UsernameUnique_Off(u) == TRUE

\* unique=True on UserModel.username: the INSERT is accepted only when no row
\* holds the username.
UsernameUnique(u) == \A i \in 1..Len(users) : users[i].username # u

(****************************** responses **********************************)

Response(op, uid, body, status, payload) ==
    [op |-> op, uid |-> uid, req |-> body, status |-> status, payload |-> payload]

Idle == [pc |-> "idle"]

Init ==
    /\ users = <<>>
    /\ captures = <<>>
    /\ thread = [t \in Threads |-> Idle]
    /\ resp = Response("none", 0, [none |-> TRUE], 0, NoneVal)
    /\ regOk = {}
    /\ capOk = <<>>

(************************* POST /api/register ******************************)

\* Bug variant: the password is checked before the username.
RegisterUser_post_PolicyFirst(t, body) ==
    /\ thread[t] = Idle
    /\ IF ~user_args_ok(body)
       THEN /\ resp' = Response("register", 0, body, 400, "required")
            /\ UNCHANGED thread
       ELSE IF ~is_valid_password(body.password)
       THEN /\ resp' = Response("register", 0, body, 400, "Password must be")
            /\ UNCHANGED thread
       ELSE IF UsersByUsername(body.username) # <<>>
       THEN /\ resp' = Response("register", 0, body, 409, "Username already exists")
            /\ UNCHANGED thread
       ELSE /\ thread' = [thread EXCEPT ![t] = [pc |-> "register_commit", req |-> body]]
            /\ UNCHANGED resp
    /\ UNCHANGED <<users, captures, regOk, capOk>>

\* RegisterUser.post up to the point where the INSERT is issued: parse, the
\* username query, the password check.
RegisterUser_post(t, body) ==
    /\ thread[t] = Idle
    /\ IF ~user_args_ok(body)
       THEN /\ resp' = Response("register", 0, body, 400, "required")
            /\ UNCHANGED thread
       ELSE IF UsersByUsername(body.username) # <<>>
       THEN /\ resp' = Response("register", 0, body, 409, "Username already exists")
            /\ UNCHANGED thread
       ELSE IF ~is_valid_password(body.password)
       THEN /\ resp' = Response("register", 0, body, 400, "Password must be")
            /\ UNCHANGED thread
       ELSE /\ thread' = [thread EXCEPT ![t] = [pc |-> "register_commit", req |-> body]]
            /\ UNCHANGED resp
    /\ UNCHANGED <<users, captures, regOk, capOk>>

\* Bug variant: the password is cut to the policy's minimum length.
NewUser_Truncated(body) ==
    [username |-> body.username,
     password |-> SubSeq(body.password, 1, MinPasswordLength)]

\* UserModel(username=args['username'], password=args['password']): the
\* password is stored as given.
NewUser(body) == [username |-> body.username, password |-> body.password]

\* db.session.add(user); db.session.commit(); return user, 201. The INSERT
\* fails on the unique constraint (IntegrityError, an unhandled 500) when
\* another request stored the username in the meantime.
RegisterUser_commit(t) ==
    /\ thread[t].pc = "register_commit"
    /\ LET body == thread[t].req
           user == WithId(NewUser(body), NextId(users))
       IN IF UsernameUnique(body.username)
          THEN /\ users' = Append(users, user)
               /\ resp' = Response("register", 0, body, 201, user)
               /\ regOk' = regOk \cup {[username |-> body.username,
                                         password |-> body.password,
                                         id |-> user.id]}
          ELSE /\ resp' = Response("register", 0, body, 500, "IntegrityError")
               /\ UNCHANGED <<users, regOk>>
    /\ thread' = [thread EXCEPT ![t] = Idle]
    /\ UNCHANGED <<captures, capOk>>

(*************************** POST /api/login *******************************)

LoginUser_post(body) ==
    /\ IF ~user_args_ok(body)
       THEN resp' = Response("login", 0, body, 400, "required")
       ELSE LET found == UsersByCredentials(body.username, body.password)
            IN IF found # <<>>
               THEN resp' = Response("login", 0, body, 200,
                                     [id |-> Head(found).id,
                                      username |-> Head(found).username])
               ELSE resp' = Response("login", 0, body, 401, "Invalid credentials")
    /\ UNCHANGED <<users, captures, thread, regOk, capOk>>

(******************* POST /api/users/<user_id>/data_capture ****************)

\* A NULL column.
SqlNull == [null |-> TRUE]

\* The JSON documents among the request texts, with the value each decodes to.
JsonDocs == [s \in {JsonGood} |-> <<1, 2>>]

\* json.loads: the decoded value, or JSONDecodeError.
json_loads(s) ==
    IF s \in DOMAIN JsonDocs
    THEN [ok |-> TRUE, value |-> [json |-> JsonDocs[s]]]
    ELSE [ok |-> FALSE]

\* "if args.get(name):" is false for None and for the empty string.
Truthy(v) == v # NoneVal /\ v # ""

\* The optional JSON argument `name`: None unless given and non-empty.
JsonArg(body, name) ==
    IF Truthy(Arg(body, name))
    THEN json_loads(body[name])
    ELSE [ok |-> TRUE, value |-> SqlNull]

\* Rows of the table and submissions on their way to it.
CapturesInFlight == {t \in Threads : thread[t].pc = "capture_commit"}

Room == Len(captures) + Cardinality(CapturesInFlight) < MaxCaptures

\* The DataCaptureModel(...) the handler builds; the id is set by the INSERT.
NewCapture(user, body, touch, sensor) ==
    [user_id |-> user.id,
     latitude |-> body.latitude,
     longitude |-> body.longitude,
     isp |-> body.isp,
     os |-> body.os,
     keystroke_dynamics |-> Arg(body, "keystroke_dynamics"),
     mouse_movement_patterns |-> Arg(body, "mouse_movement_patterns"),
     touch_interaction_patterns |-> touch,
     sensor_data |-> sensor]

\* fields.String of a JSON column: None for NULL, else str() of the value.
FieldString(v) ==
    IF v = SqlNull THEN NoneVal
    ELSE IF v.json = <<1, 2>> THEN "[1, 2]"
    ELSE "?"

\* marshal_with(data_capture_fields) of one row.
marshal_capture(row) ==
    [row EXCEPT !.touch_interaction_patterns = FieldString(@),
                !.sensor_data = FieldString(@)]

RECURSIVE marshal_captures(_)
marshal_captures(rows) ==
    IF rows = <<>> THEN <<>>
    ELSE <<marshal_capture(Head(rows))>> \o marshal_captures(Tail(rows))

\* Bug variant: the user lookup and its 404 are missing.
DataCapture_post_NoLookup(t, uid, body) ==
    /\ thread[t] = Idle
    /\ IF ~data_capture_args_ok(body)
       THEN /\ resp' = Response("data_capture", uid, body, 400, "required")
            /\ UNCHANGED thread
       ELSE LET touch == JsonArg(body, "touch_interaction_patterns")
                sensor == JsonArg(body, "sensor_data")
            IN IF ~touch.ok \/ ~sensor.ok
               THEN /\ resp' = Response("data_capture", uid, body, 500, "JSONDecodeError")
                    /\ UNCHANGED thread
               ELSE /\ Room
                    /\ thread' = [thread EXCEPT ![t] =
                                    [pc |-> "capture_commit", uid |-> uid, req |-> body,
                                     row |-> NewCapture([id |-> uid], body,
                                                        touch.value, sensor.value)]]
                    /\ UNCHANGED resp
    /\ UNCHANGED <<users, captures, regOk, capOk>>

\* DataCapture.post up to the point where the INSERT is issued: parse, the
\* user lookup, the decoding of the two JSON arguments. A JSONDecodeError is
\* not caught: flask answers 500.
DataCapture_post(t, uid, body) ==
    /\ thread[t] = Idle
    /\ IF ~data_capture_args_ok(body)
       THEN /\ resp' = Response("data_capture", uid, body, 400, "required")
            /\ UNCHANGED thread
       ELSE IF UsersById(uid) = <<>>
       THEN /\ resp' = Response("data_capture", uid, body, 404, "User not found")
            /\ UNCHANGED thread
       ELSE LET user == Head(UsersById(uid))
                touch == JsonArg(body, "touch_interaction_patterns")
                sensor == JsonArg(body, "sensor_data")
            IN IF ~touch.ok \/ ~sensor.ok
               THEN /\ resp' = Response("data_capture", uid, body, 500, "JSONDecodeError")
                    /\ UNCHANGED thread
               ELSE /\ Room
                    /\ thread' = [thread EXCEPT ![t] =
                                    [pc |-> "capture_commit", uid |-> uid, req |-> body,
                                     row |-> NewCapture(user, body, touch.value, sensor.value)]]
                    /\ UNCHANGED resp
    /\ UNCHANGED <<users, captures, regOk, capOk>>

\* db.session.add(data_capture); db.session.commit(); return data_capture, 201.
DataCapture_commit(t) ==
    /\ thread[t].pc = "capture_commit"
    /\ LET body == thread[t].req
           row == WithId(thread[t].row, NextId(captures))
       IN /\ captures' = Append(captures, row)
          /\ resp' = Response("data_capture", thread[t].uid, body, 201, marshal_capture(row))
          /\ capOk' = Append(capOk, [user_id |-> thread[t].uid,
                                     latitude |-> body.latitude,
                                     longitude |-> body.longitude,
                                     isp |-> body.isp,
                                     os |-> body.os])
    /\ thread' = [thread EXCEPT ![t] = Idle]
    /\ UNCHANGED <<users, regOk>>

(***************** POST /api/users/<user_id>/stop_data_capture *************)

\* Bug variant: stopping drops the user's stored captures.
StopDataCapture_post_Deletes(uid) ==
    /\ IF UsersById(uid) = <<>>
       THEN /\ resp' = Response("stop_data_capture", uid, [none |-> TRUE], 404, "User not found")
            /\ UNCHANGED captures
       ELSE /\ resp' = Response("stop_data_capture", uid, [none |-> TRUE], 200,
                                [message |-> "Data capture stopped for user",
                                 username |-> Head(UsersById(uid)).username])
            /\ captures' = SelectSeq(captures, LAMBDA r : r.user_id # uid)
    /\ UNCHANGED <<users, thread, regOk, capOk>>

StopDataCapture_post(uid) ==
    /\ IF UsersById(uid) = <<>>
       THEN resp' = Response("stop_data_capture", uid, [none |-> TRUE], 404, "User not found")
       ELSE resp' = Response("stop_data_capture", uid, [none |-> TRUE], 200,
                             [message |-> "Data capture stopped for user",
                              username |-> Head(UsersById(uid)).username])
    /\ UNCHANGED <<users, captures, thread, regOk, capOk>>

(********************* GET /api/users/<user_id>/data ***********************)

\* The two queries are one step, taken when the second runs: no handler
\* deletes a user, so the first one's answer still stands then.
GetUserData_get(uid) ==
    /\ IF UsersById(uid) = <<>>
       THEN resp' = Response("data", uid, [none |-> TRUE], 404, "User not found")
       ELSE resp' = Response("data", uid, [none |-> TRUE], 200,
                             marshal_captures(CapturesByUser(Head(UsersById(uid)).id)))
    /\ UNCHANGED <<users, captures, thread, regOk, capOk>>

(***************************************************************************)

Next ==
    \/ \E t \in Threads, body \in UserBodies : RegisterUser_post(t, body)
    \/ \E t \in Threads : RegisterUser_commit(t)
    \/ \E body \in UserBodies : LoginUser_post(body)
    \/ \E t \in Threads, uid \in UserIds, body \in CaptureBodies : DataCapture_post(t, uid, body)
    \/ \E t \in Threads : DataCapture_commit(t)
    \/ \E uid \in UserIds : StopDataCapture_post(uid)
    \/ \E uid \in UserIds : GetUserData_get(uid)

Spec == Init /\ [][Next]_vars

(******************************* claims ************************************)

\* Some row holds the username; some row has the id.
Registered(u) == \E j \in 1..Len(users) : users[j].username = u
UserExists(uid) == \E j \in 1..Len(users) : users[j].id = uid

RegisterResp == resp.op = "register" /\ user_args_ok(resp.req)
LoginResp == resp.op = "login" /\ user_args_ok(resp.req)
CaptureResp == resp.op = "data_capture" /\ data_capture_args_ok(resp.req)

C3_UsernameUnique ==
    /\ \A i, j \in 1..Len(users) : users[i].username = users[j].username => i = j
    /\ \A r, q \in regOk : r.username = q.username => r = q

\* C3's case: two registrations of one username raced, both passed the
\* username query, and the second INSERT was rejected by the constraint.
C3_Witness ==
    /\ RegisterResp
    /\ resp.status = 500
    /\ Registered(resp.req.username)

\* The (user_id, latitude, longitude, isp, os) of each record of a list.
RECURSIVE Submitted(_)
Submitted(rows) ==
    IF rows = <<>> THEN <<>>
    ELSE <<[user_id |-> Head(rows).user_id, latitude |-> Head(rows).latitude,
            longitude |-> Head(rows).longitude, isp |-> Head(rows).isp,
            os |-> Head(rows).os]>> \o Submitted(Tail(rows))

\* C7: GET .../data for an existing user returns 200 and one record per
\* submission of that user answered 201, each with the submitted latitude,
\* longitude, isp and os, and no record of another user (the empty list
\* when the user has none).
C7_DataOfUser ==
    (resp.op = "data" /\ UserExists(resp.uid)) =>
        /\ resp.status = 200
        /\ Submitted(resp.payload) = SelectSeq(capOk, LAMBDA c : c.user_id = resp.uid)
        /\ \A i \in 1..Len(resp.payload) : resp.payload[i].user_id = resp.uid

\* C7's case: a retrieval that returned one record while the other user owns
\* a stored capture too.
C7_Witness ==
    /\ resp.op = "data"
    /\ resp.status = 200
    /\ Len(resp.payload) = 1
    /\ Len(captures) = 2

\* C8: a login that supplies username and password returns 200, with the id
\* and username of the matching row, exactly when some row holds both values;
\* otherwise it returns 401.
C8_LoginIffMatch ==
    LoginResp =>
        LET match == {i \in 1..Len(users) :
                         /\ users[i].username = resp.req.username
                         /\ users[i].password = resp.req.password}
        IN /\ resp.status = 200 <=> match # {}
           /\ resp.status = 200 =>
                 \E i \in match : /\ resp.payload.id = users[i].id
                                  /\ resp.payload.username = users[i].username
           /\ resp.status # 200 => resp.status = 401

\* C8's case: a wrong password for a registered username was answered 401.
C8_Witness ==
    /\ LoginResp
    /\ resp.status = 401
    /\ Registered(resp.req.username)

\* C2: a registration that supplies a password, valid or not, for a username
\* some row already holds returns 409, leaves both tables as they were and
\* issues no INSERT. (A step of RegisterUser_post answers as "register" or
\* leaves the last response alone: no other step needs a look.)
C2_DuplicateRejected ==
    [][(resp' = resp \/ resp'.op = "register") =>
          \A body \in UserBodies :
              (user_args_ok(body) /\ Registered(body.username)) =>
                  \A t \in Threads :
                      RegisterUser_post(t, body) =>
                          /\ resp'.op = "register"
                          /\ resp'.status = 409
                          /\ users' = users
                          /\ captures' = captures
                          /\ thread' = thread]_vars

\* C2's case: a registered username was registered again with a password the
\* policy rejects, and answered 409.
C2_Witness ==
    /\ RegisterResp
    /\ resp.status = 409
    /\ ~is_valid_password(resp.req.password)
    /\ Registered(resp.req.username)

\* The policy as C4 words it: at least 8 characters, with a letter, a digit
\* and one of @$!%*?& among them.
ClaimedPolicy(pw) ==
    /\ Len(pw) >= 8
    /\ \E i \in 1..Len(pw) : pw[i] \in Letters
    /\ \E i \in 1..Len(pw) : pw[i] \in Digits
    /\ \E i \in 1..Len(pw) : pw[i] \in SpecialChars

\* C4: a registration of an unused username (one answered 201, or 400 with
\* both arguments supplied) is answered 400 exactly when its password fails
\* the worded policy; "short1!" and "alllettersnouppercasenodigit" are
\* rejected and "Valid1Pass!" is accepted.
C4_PolicyAsWorded ==
    /\ (RegisterResp /\ resp.status \in {201, 400}) =>
          (resp.status = 400 <=> ~ClaimedPolicy(resp.req.password))
    /\ ~ClaimedPolicy(PwShort)
    /\ ~ClaimedPolicy(PwNoDigit)
    /\ ClaimedPolicy(PwValid)

\* A JSON argument that is present and is no JSON document.
MalformedJson(body, name) == name \in DOMAIN body /\ body[name] \notin DOMAIN JsonDocs

\* C5: a submission for an existing user whose touch_interaction_patterns or
\* sensor_data is present but not valid JSON is answered with a 4xx status.
C5_BadJsonIsClientError ==
    (/\ CaptureResp
     /\ UserExists(resp.uid)
     /\ \/ MalformedJson(resp.req, "touch_interaction_patterns")
        \/ MalformedJson(resp.req, "sensor_data")) =>
        resp.status \in 400..499

UserScoped == {"data_capture", "stop_data_capture", "data"}

\* C6 as worded: every request to a user-scoped handler whose user_id matches
\* no user is answered 404.
C6_UnknownUserAlways404 ==
    (resp.op \in UserScoped /\ ~UserExists(resp.uid)) => resp.status = 404

\* C6, amended: a stop-capture or retrieval, and a submission that supplies
\* the four required fields, whose user_id matches no user is answered 404,
\* changes neither table and issues no INSERT. (A step of DataCapture_post
\* answers as "data_capture" or leaves the last response alone.)
C6_UnknownUser404 ==
    [][/\ (resp' = resp \/ resp'.op = "data_capture") =>
             \A uid \in UserIds, body \in CaptureBodies :
                 (~UserExists(uid) /\ data_capture_args_ok(body)) =>
                     \A t \in Threads :
                         DataCapture_post(t, uid, body) =>
                             /\ resp'.op = "data_capture"
                             /\ resp'.status = 404
                             /\ UNCHANGED <<users, captures, thread>>
       /\ (/\ resp'.op = "stop_data_capture"
           /\ ~UserExists(resp'.uid)
           /\ StopDataCapture_post(resp'.uid)) =>
              (resp'.status = 404 /\ UNCHANGED <<users, captures, thread>>)
       /\ (/\ resp'.op = "data"
           /\ ~UserExists(resp'.uid)
           /\ GetUserData_get(resp'.uid)) =>
              (resp'.status = 404 /\ UNCHANGED <<users, captures, thread>>)]_vars

\* C6's case: a complete submission, JSON arguments included, for an id no
\* user has was answered 404 while a user exists and nothing is stored.
C6_Witness ==
    /\ CaptureResp
    /\ "touch_interaction_patterns" \in DOMAIN resp.req
    /\ resp.status = 404
    /\ users # <<>>
    /\ captures = <<>>

\* C9: a step in which the stop-capture, login or retrieval handler answers
\* its request, whatever the answer, leaves the user table, the capture
\* table and the requests in progress as they were.
C9_ReadOnlyHandlers ==
    [][(\/ resp'.op = "stop_data_capture" /\ StopDataCapture_post(resp'.uid)
        \/ resp'.op = "data" /\ GetUserData_get(resp'.uid)
        \/ resp'.op = "login" /\ LoginUser_post(resp'.req)) =>
          UNCHANGED <<users, captures, thread>>]_vars

\* C9's case: a stop-capture answered 200 for a user whose captures are still
\* stored, with another submission of that user in progress.
C9_Witness ==
    /\ resp.op = "stop_data_capture"
    /\ resp.status = 200
    /\ (\E i \in 1..Len(captures) : captures[i].user_id = resp.uid)
    /\ \E t \in Threads : thread[t].pc = "capture_commit" /\ thread[t].uid = resp.uid

IsPrefix(a, b) == Len(a) <= Len(b) /\ \A i \in 1..Len(a) : a[i] = b[i]

\* C10: after every step each capture row's user_id is the id of a user row,
\* and every row either table held before the step is still there, unchanged.
C10_CapturesReferenceUsers ==
    [][/\ \A i \in 1..Len(captures') : \E j \in 1..Len(users') :
             captures'[i].user_id = users'[j].id
       /\ IsPrefix(users, users')
       /\ IsPrefix(captures, captures')]_vars

\* C10's case: captures stored for both users.
C10_Witness ==
    /\ Len(captures) = 2
    /\ captures[1].user_id # captures[2].user_id

====
